---------------------------- MODULE Spec2Model ----------------------------
(***************************************************************************)
(* State-machine model of jira_tui.app (src/src/jira_tui/app.py): the     *)
(* JiraTUIApp key-bound actions, the InputDialog prompt, the              *)
(* JiraCommandScreen, the configuration probe and the command runner      *)
(* with its output routing.                                                *)
(*                                                                         *)
(* Text is a sequence of tokens (TLA+ strings); the tokens " " and "\n"   *)
(* are the whitespace characters, every other token is an opaque run of  *)
(* characters that holds no newline (in the texts a user or a process     *)
(* supplies: no whitespace at all).  A command vector is a                *)
(* sequence of texts.  An optional value (str | None) is <<>> for None    *)
(* and <<v>> for the value v.  In the fixed texts a backquote is written  *)
(* ' and the ellipsis character "...", and the check-mark emoji of the    *)
(* authenticated status is left out.                                       *)
(*                                                                         *)
(* One coroutine runs at a time: a key binding is dispatched only when    *)
(* the previous action handler has returned, and the steps of the model   *)
(* are the stretches of code between two awaits.                           *)
(***************************************************************************)
EXTENDS Naturals, Sequences, FiniteSets

\* Number of key presses dispatched to app bindings after start-up.
MaxKeys == 1

\* Length of the texts typed into the InputDialog under test.
MaxTyped == 3

VARIABLES
    pc,          \* where the running coroutine is suspended
    action,      \* the action handler that is running (or ran last)
    answers,     \* what the prompts of this action resolved to, in order
    cmd,         \* command vector of the run in progress
    target,      \* stdout_target of the run in progress
    inflight,    \* number of subprocesses started and not yet terminated
    screens,     \* modal screens pushed on the screen stack, top last
    terminal,    \* content of the Terminal of the JiraCommandScreen
    configured,  \* JiraTUIApp.configured
    status,      \* StatusWidget.status
    log,         \* lines written to the Log widget
    listPanel,   \* lines shown by the IssueListPanel
    detailPanel, \* lines shown by the IssueDetailPanel
    calls,       \* sink calls made by this action, in order
    result,      \* CommandResult of this action's run, if it returned one
    raised,      \* exception raised by this action's run
    nkeys,       \* key presses dispatched so far
    input_value, \* Input.value of the InputDialog under test
    gesture      \* handler that dismissed the InputDialog under test

vars == <<pc, action, answers, cmd, target, inflight, screens, terminal,
          configured, status, log, listPanel, detailPanel, calls, result,
          raised, nkeys, input_value, gesture>>

---------------------------------------------------------------------------
\* Text: str.strip, str.splitlines, " ".join

IsSpace(c) == c \in {" ", "\n"}

RECURSIVE lstrip(_)
lstrip(t) ==
    IF t = <<>> THEN t
    ELSE IF IsSpace(Head(t)) THEN lstrip(Tail(t)) ELSE t

RECURSIVE rstrip(_)
rstrip(t) ==
    IF t = <<>> THEN t
    ELSE IF IsSpace(t[Len(t)]) THEN rstrip(SubSeq(t, 1, Len(t) - 1)) ELSE t

strip(t) == rstrip(lstrip(t))

RECURSIVE SplitFrom(_, _, _)
SplitFrom(t, cur, acc) ==
    IF t = <<>> THEN (IF cur = <<>> THEN acc ELSE Append(acc, cur))
    ELSE IF Head(t) = "\n" THEN SplitFrom(Tail(t), <<>>, Append(acc, cur))
    ELSE SplitFrom(Tail(t), Append(cur, Head(t)), acc)

splitlines(t) == SplitFrom(t, <<>>, <<>>)

RECURSIVE join(_)
join(parts) ==
    IF parts = <<>> THEN <<>>
    ELSE IF Len(parts) = 1 THEN Head(parts)
    ELSE Head(parts) \o <<" ">> \o join(Tail(parts))

Contains(t, tok) == \E i \in 1..Len(t) : t[i] = tok

HasLine(lines, line) == \E i \in 1..Len(lines) : lines[i] = line

---------------------------------------------------------------------------
\* Fixed texts of the program

CheckingStatus == <<"Checking jira-cli configuration...">>
NotInstalledStatus == <<"jira-cli (jira) is ", "not installed", " or in PATH.">>
AuthenticatedStatus == <<"jira-cli is ", "authenticated">>
MissingStatus ==
    <<"jira-cli configuration missing.", " ", "Press 'g' to run jira init.">>

UnableToFind ==
    <<"Unable", " ",
      "to find 'jira' binary. Install https://github.com/ankitpokhrel/jira-cli">>
UnableToExecute ==
    <<"Unable", " ",
      "to execute 'jira'. Ensure jira-cli is installed and on PATH.">>

ListPlaceholder == <<"Issue lists will appear here.">>
DetailPlaceholder == <<"Issue details will appear here.">>
LoadingIssues == <<"Loading issues assigned to you...">>
NoIssues == <<"No issues assigned to you.">>
NoData == <<"No data returned.">>

CodeStr(rc) == CASE rc = 0 -> "0" [] rc = 1 -> "1" [] rc = 2 -> "2" [] OTHER -> "n"

---------------------------------------------------------------------------
\* The sinks.  A sink state is the record Sinks below; every operator takes
\* one and gives the one after the call.

Sinks ==
    [configured |-> configured, status |-> status, log |-> log,
     list |-> listPanel, detail |-> detailPanel, calls |-> calls]

Call(a, sink, op, text) ==
    [a EXCEPT !.calls = Append(@, [sink |-> sink, op |-> op, text |-> text])]

\* JiraTUIApp._log: one Log.write per line of the message.
RECURSIVE WriteLines(_, _)
WriteLines(a, lines) ==
    IF lines = <<>> THEN a
    ELSE WriteLines(
             Call([a EXCEPT !.log = Append(@, Head(lines))],
                  "log", "write", Head(lines)),
             Tail(lines))

log_message(a, message) == WriteLines(a, splitlines(message))

\* IssuePanel.show_message: clear, then one write per line, or one empty line.
show_message(a, panel, message) ==
    LET lines == splitlines(message)
        shown == IF lines = <<>> THEN << <<>> >> ELSE lines
    IN  [Call(a, panel, "show_message", message) EXCEPT ![panel] = shown]

show_error(a, panel, message) ==
    show_message(Call(a, panel, "show_error", message), panel,
                 <<"Error: ">> \o message)

display_output(a, panel, output) ==
    LET text == IF strip(output) = <<>> THEN NoData ELSE strip(output)
    IN  show_message(Call(a, panel, "display_output", output), panel, text)

---------------------------------------------------------------------------
\* The command runner, JiraTUIApp._run_jira_command with capture_output=True
\* (no caller in the program passes capture_output=False).

\* Variant: the runner passes the arguments on without the program name.
Argv_no_program(args) == args

Argv(args) == << <<"jira">> >> \o args

\* Up to the await of create_subprocess_exec: the command is echoed.
log_command(a, argv) == log_message(a, <<"$", " ">> \o join(argv))

FailureMessage(res) ==
    <<"Command '">> \o join(res.command) \o <<"' exited with code ">>
        \o <<CodeStr(res.returncode)>>

\* Variant: the failure message goes to the panel instead of the log.
handle_command_failure_either(a, res, panel) ==
    IF panel # "none" THEN show_error(a, panel, FailureMessage(res))
    ELSE log_message(a, FailureMessage(res))

handle_command_failure(a, res, panel) ==
    LET message == FailureMessage(res)
        a1 == log_message(a, message)
    IN  IF panel # "none" THEN show_error(a1, panel, message) ELSE a1

\* Variant: the diagnostic is logged and the panel is left alone.
handle_missing_binary_log_only(a, panel) == log_message(a, UnableToExecute)

handle_missing_binary(a, panel) ==
    LET a1 == log_message(a, UnableToExecute)
    IN  IF panel # "none" THEN show_error(a1, panel, UnableToExecute) ELSE a1

CommandResult(argv, stdout, stderr, returncode) ==
    [command |-> argv, stdout |-> stdout, stderr |-> stderr,
     returncode |-> returncode]

ok(res) == res.returncode = 0

\* bytes.decode().strip() of what communicate() returned
decoded(bytes) == strip(bytes)

\* Variant: stdout is logged even when a panel displays it.
route_stdout_both(a, stdout, panel) ==
    IF stdout # <<>>
    THEN IF panel # "none"
         THEN log_message(display_output(a, panel, stdout), stdout)
         ELSE log_message(a, stdout)
    ELSE a

\* After communicate() returned: stdout to the panel or the log, stderr to
\* the log, then the failure path.
route_stdout(a, stdout, panel) ==
    IF stdout # <<>>
    THEN IF panel # "none" THEN display_output(a, panel, stdout)
         ELSE log_message(a, stdout)
    ELSE a

route_stderr(a, stderr) ==
    IF stderr # <<>> THEN log_message(a, stderr) ELSE a

route_failure(a, res, panel) ==
    IF ~ok(res) THEN handle_command_failure(a, res, panel) ELSE a

\* Variant: stderr is logged only for a run that failed.
route_output_stderr_on_failure(a, res, panel) ==
    route_failure(
        IF ok(res) THEN route_stdout(a, res.stdout, panel)
        ELSE route_stderr(route_stdout(a, res.stdout, panel), res.stderr),
        res, panel)

\* Variant: the failure is reported before the output is routed.
route_output_failure_first(a, res, panel) ==
    route_stderr(route_stdout(route_failure(a, res, panel), res.stdout, panel),
                 res.stderr)

route_output(a, res, panel) ==
    route_failure(route_stderr(route_stdout(a, res.stdout, panel), res.stderr),
                  res, panel)

---------------------------------------------------------------------------
\* The configuration probe, JiraTUIApp.check_configuration

ProbeActions == {"on_mount", "refresh", "init", "create_issue"}

\* Variant: the probe leaves the status as it is until it has a result.
probe_begin_noop(a) == a

probe_begin(a) == [a EXCEPT !.status = CheckingStatus]

\* Variant: a probe that finds no binary leaves the configured flag as it
\* was.
probe_missing_keeps_flag(a) ==
    log_message([a EXCEPT !.status = NotInstalledStatus], UnableToFind)

probe_missing(a) ==
    log_message([a EXCEPT !.configured = FALSE, !.status = NotInstalledStatus],
                UnableToFind)

\* Variant: a failed probe leaves the configured flag as it was.
probe_result_stale(a, res) ==
    IF res.returncode = 0
    THEN LET a1 == [a EXCEPT !.configured = TRUE,
                             !.status = AuthenticatedStatus]
         IN  IF res.stdout # <<>> THEN log_message(a1, res.stdout) ELSE a1
    ELSE LET a1 == [a EXCEPT !.status = MissingStatus]
         IN  IF res.stderr # <<>> THEN log_message(a1, res.stderr) ELSE a1

probe_result(a, res) ==
    IF res.returncode = 0
    THEN LET a1 == [a EXCEPT !.configured = TRUE,
                             !.status = AuthenticatedStatus]
         IN  IF res.stdout # <<>> THEN log_message(a1, res.stdout) ELSE a1
    ELSE LET a1 == [a EXCEPT !.configured = FALSE, !.status = MissingStatus]
         IN  IF res.stderr # <<>> THEN log_message(a1, res.stderr) ELSE a1

---------------------------------------------------------------------------
\* The action handlers, cut at their awaits

\* Number of prompts the action opens before it runs its command.
Prompts(act) ==
    CASE act \in {"search", "view_issue"} -> 1
      [] act \in {"comment_issue", "transition_issue"} -> 2
      [] OTHER -> 0

\* The arguments handed to _run_jira_command.
RunArgs(act, ans) ==
    CASE act \in ProbeActions -> << <<"me">> >>
      [] act = "search" ->
            << <<"issue">>, <<"list">>, <<"--jql">>, ans[1][1], <<"--plain">> >>
      [] act = "my_issues" ->
            << <<"issue">>, <<"list">>, <<"--assignee">>, <<"me">>,
               <<"--order-by">>, <<"updated">>, <<"--reverse">>, <<"--plain">> >>
      [] act = "view_issue" ->
            << <<"issue">>, <<"view">>, ans[1][1], <<"--plain">> >>
      [] act = "comment_issue" ->
            << <<"issue">>, <<"comment">>, <<"add">>, ans[1][1], <<"--comment">>,
               ans[2][1] >>
      [] act = "transition_issue" ->
            << <<"issue">>, <<"transition">>, ans[1][1], <<"--state">>, ans[2][1] >>

\* The stdout_target handed to _run_jira_command.
RunTarget(act) ==
    CASE act = "my_issues" -> "list"
      [] act = "view_issue" -> "detail"
      [] OTHER -> "none"

\* What the handler does between its last prompt and the runner.
before_run(a, act, ans) ==
    CASE act \in ProbeActions -> probe_begin(a)
      [] act = "my_issues" -> show_message(a, "list", LoadingIssues)
      [] act = "view_issue" ->
            show_message(a, "detail", <<"Loading issue ">> \o ans[1][1] \o <<"...">>)
      [] OTHER -> a

\* Variant: comment and transition log their confirmation whatever the
\* exit code.
after_result_unconditional(a, act, res, ans) ==
    CASE act \in ProbeActions -> probe_result(a, res)
      [] act = "my_issues" ->
            IF ok(res) /\ res.stdout = <<>>
            THEN show_message(a, "list", NoIssues) ELSE a
      [] act = "comment_issue" ->
            log_message(a, <<"Comment added to ">> \o ans[1][1] \o <<".">>)
      [] act = "transition_issue" ->
            log_message(a, <<"Transitioned ">> \o ans[1][1] \o <<" to ">>
                               \o ans[2][1] \o <<".">>)
      [] OTHER -> a

\* Variant: list my issues shows "No issues" after every run that exits 0.
after_result_no_issues_on_ok(a, act, res, ans) ==
    CASE act \in ProbeActions -> probe_result(a, res)
      [] act = "my_issues" ->
            IF ok(res) THEN show_message(a, "list", NoIssues) ELSE a
      [] act = "comment_issue" ->
            IF ok(res)
            THEN log_message(a, <<"Comment added to ">> \o ans[1][1] \o <<".">>)
            ELSE a
      [] act = "transition_issue" ->
            IF ok(res)
            THEN log_message(a, <<"Transitioned ">> \o ans[1][1] \o <<" to ">>
                                    \o ans[2][1] \o <<".">>)
            ELSE a
      [] OTHER -> a

\* What the handler does with the CommandResult the runner returned.
after_result(a, act, res, ans) ==
    CASE act \in ProbeActions -> probe_result(a, res)
      [] act = "my_issues" ->
            IF ok(res) /\ res.stdout = <<>>
            THEN show_message(a, "list", NoIssues) ELSE a
      [] act = "comment_issue" ->
            IF ok(res)
            THEN log_message(a, <<"Comment added to ">> \o ans[1][1] \o <<".">>)
            ELSE a
      [] act = "transition_issue" ->
            IF ok(res)
            THEN log_message(a, <<"Transitioned ">> \o ans[1][1] \o <<" to ">>
                                    \o ans[2][1] \o <<".">>)
            ELSE a
      [] OTHER -> a

\* Variant: action_search calls the runner outside any try.
Catches_not_search(act) ==
    act \in ProbeActions \cup
        {"my_issues", "view_issue", "comment_issue", "transition_issue"}

\* Variant: only check_configuration catches FileNotFoundError.
Catches_only_probe(act) == act \in ProbeActions

\* Whether the handler's call of the runner sits in try/except FileNotFoundError.
Catches(act) ==
    act \in ProbeActions \cup
        {"search", "my_issues", "view_issue", "comment_issue", "transition_issue"}

\* `if not key: return` and its like: the test on a prompt's value, and
\* what the handler does to the sinks when it returns on it.
Falsy(value) == value = <<>> \/ value[1] = <<>>

\* Variant: the handler logs that it was cancelled.
no_value_logged(a, act) == log_message(a, <<"Cancelled.">>)

no_value(a, act) == a

\* Variant: every handler marks the app as not configured.
after_missing_all(a, act) == probe_missing(a)

\* The except FileNotFoundError branch of the handler.
after_missing(a, act) ==
    IF act \in ProbeActions THEN probe_missing(a) ELSE a

\* The command a JiraCommandScreen is constructed with.
ScreenCommand(act) ==
    IF act = "init" THEN << <<"jira">>, <<"init">> >>
    ELSE << <<"jira">>, <<"issue">>, <<"create">> >>

\* The CommandResult a handler holds of the command of its
\* JiraCommandScreen: push_screen hands it none, and the Terminal has run
\* nothing.
screen_result(act) == <<>>

\* Terminal.run_command of the class the module defines when
\* textual.widgets has no Terminal: it shows the command, it runs nothing.
run_command(command) ==
    <<"Terminal widget not available.", "\n",
      "Run the following command manually in your shell:", "\n",
      "$", " ">> \o join(command)

HelpText ==
    <<"Available shortcuts:", "\n",
      "g - configure jira-cli (runs 'jira init')", "\n",
      "R - re-check authentication", "\n",
      "/ - run an arbitrary JQL search", "\n",
      "i - list issues assigned to you", "\n",
      "v - view an issue", "\n",
      "c - create a new issue", "\n",
      "C - add a comment to an issue", "\n",
      "t - transition an issue", "\n",
      "q - quit">>

---------------------------------------------------------------------------
\* Inputs

\* What a user types into the Input of an InputDialog.
InputValues == { <<>>, <<" ">>, <<" ", "ABC-1", " ">>, <<"In", " ", "Progress">> }

\* What a subprocess writes and how it exits.
StdoutBytes == { <<>>, <<" ", "\n">>, <<"ISSUE-1", "\n", "ISSUE-2", "\n">> }
StderrBytes == { <<>>, <<"boom", "\n">> }
ReturnCodes == {0, 1, 2}

---------------------------------------------------------------------------
\* The state machine

Init ==
    /\ pc = "start"
    /\ action = "none"
    /\ answers = <<>>
    /\ cmd = <<>>
    /\ target = "none"
    /\ inflight = 0
    /\ screens = <<>>
    /\ terminal = <<>>
    /\ configured = FALSE
    /\ status = CheckingStatus
    /\ log = <<>>
    /\ listPanel = <<ListPlaceholder>>
    /\ detailPanel = <<DetailPlaceholder>>
    /\ calls = <<>>
    /\ result = <<>>
    /\ raised = "none"
    /\ nkeys = 0
    /\ input_value = <<>>
    /\ gesture = "none"

Commit(a) ==
    /\ configured' = a.configured
    /\ status' = a.status
    /\ log' = a.log
    /\ listPanel' = a.list
    /\ detailPanel' = a.detail
    /\ calls' = a.calls

SinksUnchanged == UNCHANGED <<configured, status, log, listPanel, detailPanel>>

\* The sinks as a new action finds them: no call made yet.
Fresh == [Sinks EXCEPT !.calls = <<>>]

\* An app binding fires for a key only when no handler is running and no
\* modal screen holds the focus.
CanDispatch == pc = "idle" /\ screens = <<>> /\ nkeys < MaxKeys

Dispatch(act) ==
    /\ CanDispatch
    /\ action' = act
    /\ nkeys' = nkeys + 1
    /\ result' = <<>>
    /\ raised' = "none"

\* The handler reaches the runner: everything up to the await of
\* create_subprocess_exec.
EnterRunner(a, act, ans) ==
    /\ cmd' = Argv(RunArgs(act, ans))
    /\ target' = RunTarget(act)
    /\ Commit(log_command(before_run(a, act, ans), Argv(RunArgs(act, ans))))
    /\ pc' = "exec"

\* Variant: the runner returns without awaiting the process.
AwaitProcess_not_awaited == "idle"

\* Where the runner is once create_subprocess_exec has returned a process:
\* it awaits process.communicate().
AwaitProcess == "communicate"

\* JiraTUIApp.on_mount
OnMount ==
    /\ UNCHANGED <<input_value, gesture>>
    /\ pc = "start"
    /\ action' = "on_mount"
    /\ EnterRunner(Fresh, "on_mount", <<>>)
    /\ UNCHANGED <<answers, inflight, screens, terminal, result, raised, nkeys>>

\* R: action_refresh
KeyRefresh ==
    /\ UNCHANGED <<input_value, gesture>>
    /\ Dispatch("refresh")
    /\ EnterRunner(Fresh, "refresh", <<>>)
    /\ answers' = <<>>
    /\ UNCHANGED <<inflight, screens, terminal>>

\* i: action_my_issues
KeyMyIssues ==
    /\ UNCHANGED <<input_value, gesture>>
    /\ Dispatch("my_issues")
    /\ EnterRunner(Fresh, "my_issues", <<>>)
    /\ answers' = <<>>
    /\ UNCHANGED <<inflight, screens, terminal>>

\* g, c: action_init and action_create_issue push a JiraCommandScreen and
\* await its mounting.
PushCommandScreen(act) ==
    /\ UNCHANGED <<input_value, gesture>>
    /\ Dispatch(act)
    /\ screens' = Append(screens, "JiraCommandScreen")
    /\ pc' = "push_screen"
    /\ answers' = <<>>
    /\ cmd' = <<>>
    /\ target' = "none"
    /\ calls' = <<>>
    /\ SinksUnchanged
    /\ UNCHANGED <<inflight, terminal>>

KeyInit == PushCommandScreen("init")

KeyCreateIssue == PushCommandScreen("create_issue")

\* JiraCommandScreen.on_mount runs the Terminal's run_command; push_screen
\* returns and the handler goes on to check_configuration.
ScreenMounted ==
    /\ UNCHANGED <<input_value, gesture>>
    /\ pc = "push_screen"
    /\ terminal' = run_command(ScreenCommand(action))
    /\ EnterRunner(Sinks, action, <<>>)
    /\ UNCHANGED <<action, answers, inflight, screens, result, raised, nkeys>>

\* escape on the JiraCommandScreen: app.pop_screen
Escape ==
    /\ UNCHANGED <<input_value, gesture>>
    /\ pc = "idle"
    /\ screens # <<>>
    /\ screens[Len(screens)] = "JiraCommandScreen"
    /\ screens' = SubSeq(screens, 1, Len(screens) - 1)
    /\ terminal' = <<>>
    /\ UNCHANGED <<pc, action, answers, cmd, target, inflight, configured,
                   status, log, listPanel, detailPanel, calls, result, raised,
                   nkeys>>

\* /, v, C, t: the handler opens its first prompt.
\* Variant: the handler returns as soon as the dialog is pushed.
PromptAwaits_not_awaited == "idle"

\* Where a handler is once _prompt has pushed the dialog: push_screen_wait
\* suspends it until the dialog is dismissed.
PromptAwaits == "prompt"

OpenPrompt(act) ==
    /\ UNCHANGED <<input_value, gesture>>
    /\ Dispatch(act)
    /\ screens' = Append(screens, "InputDialog")
    /\ pc' = PromptAwaits
    /\ answers' = <<>>
    /\ cmd' = <<>>
    /\ target' = "none"
    /\ calls' = <<>>
    /\ SinksUnchanged
    /\ UNCHANGED <<inflight, terminal>>

KeySearch == OpenPrompt("search")

KeyViewIssue == OpenPrompt("view_issue")

KeyCommentIssue == OpenPrompt("comment_issue")

KeyTransitionIssue == OpenPrompt("transition_issue")

\* InputDialog._cancel, _submit and _submit_enter: the value the dialog is
\* dismissed with.
cancel_value == <<>>

submit_value(typed) == IF strip(typed) = <<>> THEN <<>> ELSE <<strip(typed)>>

\* Variant: submit-on-enter dismisses with the text as typed.
submit_enter_value_unstripped(typed) ==
    IF typed = <<>> THEN <<>> ELSE <<typed>>

submit_enter_value(typed) ==
    IF strip(typed) = <<>> THEN <<>> ELSE <<strip(typed)>>

\* The dialog is dismissed with `value` and the handler resumes: it returns
\* on no value, opens its next prompt, or reaches the runner.
Resume(value) ==
    /\ UNCHANGED <<input_value, gesture>>
    /\ pc = "prompt"
    /\ answers' = Append(answers, value)
    /\ UNCHANGED <<action, inflight, terminal, result, raised, nkeys>>
    /\ IF Falsy(value)
       THEN /\ pc' = "idle"
            /\ screens' = SubSeq(screens, 1, Len(screens) - 1)
            /\ Commit(no_value(Sinks, action))
            /\ UNCHANGED <<cmd, target>>
       ELSE IF Len(answers) + 1 < Prompts(action)
       THEN /\ pc' = PromptAwaits
            /\ screens' = screens
            /\ UNCHANGED <<cmd, target, configured, status, log, listPanel,
                           detailPanel, calls>>
       ELSE /\ screens' = SubSeq(screens, 1, Len(screens) - 1)
            /\ EnterRunner(Sinks, action, Append(answers, value))

PromptCancel == Resume(cancel_value)

PromptSubmit == \E typed \in InputValues : Resume(submit_value(typed))

PromptSubmitEnter == \E typed \in InputValues : Resume(submit_enter_value(typed))

\* ?: action_show_help
KeyShowHelp ==
    /\ UNCHANGED <<input_value, gesture>>
    /\ Dispatch("show_help")
    /\ Commit(log_message(Fresh, HelpText))
    /\ answers' = <<>>
    /\ cmd' = <<>>
    /\ target' = "none"
    /\ UNCHANGED <<pc, inflight, screens, terminal>>

\* q: the app exits.
KeyQuit ==
    /\ UNCHANGED <<input_value, gesture>>
    /\ Dispatch("quit")
    /\ pc' = "quit"
    /\ answers' = <<>>
    /\ cmd' = <<>>
    /\ target' = "none"
    /\ calls' = <<>>
    /\ SinksUnchanged
    /\ UNCHANGED <<inflight, screens, terminal>>

\* create_subprocess_exec returns a process.
SpawnProcess ==
    /\ UNCHANGED <<input_value, gesture>>
    /\ pc = "exec"
    /\ inflight' = inflight + 1
    /\ pc' = AwaitProcess
    /\ UNCHANGED <<action, answers, cmd, target, screens, terminal, configured,
                   status, log, listPanel, detailPanel, calls, result, raised,
                   nkeys>>

\* create_subprocess_exec raises FileNotFoundError: the runner posts the
\* diagnostic and re-raises, the handler catches it or the error leaves it.
SpawnFileNotFound ==
    /\ UNCHANGED <<input_value, gesture>>
    /\ pc = "exec"
    /\ raised' = "FileNotFoundError"
    /\ IF Catches(action)
       THEN /\ Commit(after_missing(handle_missing_binary(Sinks, target), action))
            /\ pc' = "idle"
       ELSE /\ Commit(handle_missing_binary(Sinks, target))
            /\ pc' = "crashed"
    /\ UNCHANGED <<action, answers, cmd, target, inflight, screens, terminal,
                   result, nkeys>>

\* process.communicate() returns: the output is routed, the runner returns
\* its CommandResult and the handler finishes.
ProcessExit ==
    /\ UNCHANGED <<input_value, gesture>>
    /\ pc = "communicate"
    /\ inflight > 0
    /\ \E out \in StdoutBytes, err \in StderrBytes, rc \in ReturnCodes :
          LET res == CommandResult(cmd, decoded(out), decoded(err), rc) IN
          /\ result' = <<res>>
          /\ Commit(after_result(route_output(Sinks, res, target), action,
                                 res, answers))
    /\ inflight' = inflight - 1
    /\ pc' = "idle"
    /\ UNCHANGED <<action, answers, cmd, target, screens, terminal, raised,
                   nkeys>>

Next ==
    \/ OnMount
    \/ KeyInit
    \/ KeyRefresh
    \/ KeySearch
    \/ KeyMyIssues
    \/ KeyViewIssue
    \/ KeyCreateIssue
    \/ KeyCommentIssue
    \/ KeyTransitionIssue
    \/ KeyShowHelp
    \/ KeyQuit
    \/ ScreenMounted
    \/ Escape
    \/ PromptCancel
    \/ PromptSubmit
    \/ PromptSubmitEnter
    \/ SpawnProcess
    \/ SpawnFileNotFound
    \/ ProcessExit

Spec == Init /\ [][Next]_vars

---------------------------------------------------------------------------
\* The InputDialog on its own: any text of up to MaxTyped characters is in
\* its Input, and one of its three handlers dismisses it.

\* The event loop runs every step that is ready: the app is mounted, a
\* pushed screen is mounted, create_subprocess_exec returns or raises, a
\* launched subprocess terminates, and an open prompt is resolved.
Fairness ==
    /\ WF_vars(OnMount)
    /\ WF_vars(ScreenMounted)
    /\ WF_vars(SpawnProcess \/ SpawnFileNotFound)
    /\ WF_vars(ProcessExit)
    /\ WF_vars(PromptCancel \/ PromptSubmit \/ PromptSubmitEnter)

FairSpec == Spec /\ Fairness

TypedChars == {" ", "a", "b"}

TypedTexts == UNION { [1..n -> TypedChars] : n \in 0..MaxTyped }

InitPrompt ==
    /\ pc = "prompt"
    /\ action = "search"
    /\ answers = <<>>
    /\ cmd = <<>>
    /\ target = "none"
    /\ inflight = 0
    /\ screens = <<"InputDialog">>
    /\ terminal = <<>>
    /\ configured = FALSE
    /\ status = CheckingStatus
    /\ log = <<>>
    /\ listPanel = <<ListPlaceholder>>
    /\ detailPanel = <<DetailPlaceholder>>
    /\ calls = <<>>
    /\ result = <<>>
    /\ raised = "none"
    /\ nkeys = 1
    /\ input_value \in TypedTexts
    /\ gesture = "none"

\* Screen.dismiss(value): the dialog leaves the stack and its awaiter gets
\* the value.
Dismiss(handler, value) ==
    /\ pc = "prompt"
    /\ gesture' = handler
    /\ answers' = Append(answers, value)
    /\ screens' = SubSeq(screens, 1, Len(screens) - 1)
    /\ pc' = "dismissed"
    /\ UNCHANGED <<action, cmd, target, inflight, terminal, configured, status,
                   log, listPanel, detailPanel, calls, result, raised, nkeys,
                   input_value>>

DialogCancel == Dismiss("_cancel", cancel_value)

DialogSubmit == Dismiss("_submit", submit_value(input_value))

DialogSubmitEnter ==
    Dismiss("_submit_enter", submit_enter_value(input_value))

NextPrompt == DialogCancel \/ DialogSubmit \/ DialogSubmitEnter

SpecPrompt == InitPrompt /\ [][NextPrompt]_vars

---------------------------------------------------------------------------
\* Reading the calls of the running (or last) action

LogWrites == SelectSeq(calls, LAMBDA c : c.sink = "log")

PanelCalls(op) == SelectSeq(calls, LAMBDA c : c.sink # "log" /\ c.op = op)

\* The action wrote these lines to the log, one after the other.
Wrote(lines) ==
    \E i \in 0..Len(LogWrites) :
        /\ i + Len(lines) <= Len(LogWrites)
        /\ \A j \in 1..Len(lines) : LogWrites[i + j].text = lines[j]

\* The action wrote one of these lines to the log.
WroteSome(lines) ==
    \E i \in 1..Len(LogWrites), j \in 1..Len(lines) :
        LogWrites[i].text = lines[j]

PanelOf(name) == IF name = "list" THEN listPanel ELSE detailPanel

HasScreen(name) == \E i \in 1..Len(screens) : screens[i] = name

\* The runner of this action returned a CommandResult / raised.
Returned == pc = "idle" /\ result # <<>>

Missing == pc = "idle" /\ raised = "FileNotFoundError"

---------------------------------------------------------------------------
\* C1: at most one subprocess is in flight at any time, and one is in
\* flight only while the action that started it is suspended on it, so no
\* other action is dispatched before it has ended.
C1_OneSubprocessInFlight ==
    /\ inflight <= 1
    /\ inflight = 1 => pc = "communicate"

\* A key-bound action has its subprocess in flight, after the start-up
\* probe's subprocess has come and gone.
C1_Witness == inflight = 1 /\ nkeys = 1 /\ action = "view_issue"

\* C2: for configure and create issue, the configuration probe runs only
\* once the interactive sub-session is over: the probe is never under way
\* while the JiraCommandScreen of the action is still open.
C2_ProbeAfterSubSession ==
    (action \in {"init", "create_issue"} /\ pc \in {"exec", "communicate"})
        => ~HasScreen("JiraCommandScreen")

\* C3: in search, view issue, comment and transition, a prompt that
\* resolves to no value ends the action: no subprocess is started, no
\* command vector is built, and from the dispatch of the action to its end
\* no sink is called, so the log and both panels are as they were.
C3_NoValueAborts ==
    [][ (Len(answers') = Len(answers) + 1 /\ Falsy(answers'[Len(answers')]))
            => /\ pc' = "idle"
               /\ calls' = <<>>
               /\ cmd' = <<>>
               /\ inflight' = 0
               /\ result' = <<>>
               /\ UNCHANGED <<log, listPanel, detailPanel, status, configured>>
      ]_vars

\* The comment action was ended by its second prompt.
C3_Witness ==
    /\ action = "comment_issue"
    /\ pc = "idle"
    /\ Len(answers) = 2
    /\ ~Falsy(answers[1])
    /\ Falsy(answers[2])

\* C4, as claimed: whenever a run fails on a missing binary, in the probe
\* or in any action, the diagnostic is in the log, the target panel (if
\* any) shows the error, and the status says "not installed".
C4_MissingBinarySetsStatus ==
    Missing =>
        /\ Wrote(<<UnableToExecute>>)
        /\ target # "none" => PanelOf(target) = << <<"Error: ">> \o UnableToExecute >>
        /\ Contains(status, "not installed")

\* C4, amended: whenever a run fails on a missing binary, the diagnostic is
\* written to the log and the target panel (if any) shows the error; the
\* status becomes "not installed" when the run was the configuration
\* probe, and stays what it was when it was the run of any other action.
C4_MissingBinarySurfaced ==
    [][ (pc = "exec" /\ raised' = "FileNotFoundError")
            => /\ Len(log') > Len(log)
               /\ log'[Len(log) + 1] = UnableToExecute
               /\ target # "none" =>
                     /\ PanelOf(target)' = << <<"Error: ">> \o UnableToExecute >>
                     /\ Len(PanelCalls("show_error")') = 1
               /\ target = "none" => UNCHANGED <<listPanel, detailPanel>>
               /\ IF action \in ProbeActions
                  THEN status' = NotInstalledStatus
                  ELSE status' = status
      ]_vars

\* View issue failed on a missing binary while the status says authenticated.
C4_Witness ==
    /\ Missing
    /\ action = "view_issue"
    /\ status = AuthenticatedStatus
    /\ detailPanel = << <<"Error: ">> \o UnableToExecute >>

\* C5: when a configuration probe has completed, the state is the one of
\* its outcome, whatever it was before: missing binary - not configured,
\* status "not installed", an "Unable" line logged; exit code 0 -
\* configured, status authenticated; any other exit code - not configured,
\* status configuration missing, and the stderr, if any, logged.
C5_ProbeOutcome ==
    (action \in ProbeActions /\ pc = "idle") =>
        /\ raised = "FileNotFoundError" =>
              /\ configured = FALSE
              /\ Contains(status, "not installed")
              /\ \E i \in 1..Len(LogWrites) : Contains(LogWrites[i].text, "Unable")
        /\ (result # <<>> /\ result[1].returncode = 0) =>
              /\ configured = TRUE
              /\ status = AuthenticatedStatus
        /\ (result # <<>> /\ result[1].returncode # 0) =>
              /\ configured = FALSE
              /\ status = MissingStatus
              /\ Wrote(splitlines(result[1].stderr))
        /\ raised = "FileNotFoundError" \/ result # <<>>

\* A refresh found the configuration missing and logged the stderr, after
\* the start-up probe had succeeded (its stdout is in the log twice).
C5_Witness ==
    /\ action = "refresh"
    /\ pc = "idle"
    /\ result # <<>>
    /\ result[1].returncode = 1
    /\ result[1].stderr # <<>>
    /\ result[1].stdout = <<>>
    /\ Len(SelectSeq(log, LAMBDA l : l = <<"ISSUE-1">>)) = 2
    /\ configured = FALSE

\* C6: the configured flag changes only in a step of the configuration
\* probe: the step that changes it ends a run of `jira me` made by the
\* start-up, refresh, configure or create-issue handler.
C6_OnlyProbeSetsConfigured ==
    [][ configured' # configured
            => /\ action \in ProbeActions
               /\ pc \in {"exec", "communicate"}
               /\ cmd = << <<"jira">>, <<"me">> >>
               /\ pc' = "idle"
      ]_vars

\* View issue failed on a missing binary and the app is still configured.
C6_Witness == Missing /\ action = "view_issue" /\ configured = TRUE

\* C7: the trimmed stdout of a run, when not empty, goes to one sink: with
\* a target panel, to that panel by exactly one display_output call and
\* by no write to the log; with no target panel, to the log.
C7_StdoutToOneSink ==
    (Returned /\ result[1].stdout # <<>>) =>
        IF target # "none"
        THEN /\ PanelCalls("display_output")
                    = << [sink |-> target, op |-> "display_output",
                          text |-> result[1].stdout] >>
             /\ ~WroteSome(splitlines(result[1].stdout))
        ELSE /\ Wrote(splitlines(result[1].stdout))
             /\ PanelCalls("display_output") = <<>>

\* List my issues got two lines of output and they are on the list panel.
C7_Witness ==
    /\ Returned
    /\ action = "my_issues"
    /\ result[1].stdout = <<"ISSUE-1", "\n", "ISSUE-2">>
    /\ result[1].returncode = 0
    /\ listPanel = << <<"ISSUE-1">>, <<"ISSUE-2">> >>

\* C8: the trimmed stderr of a run, when not empty, is written to the log,
\* whatever the exit code and whether or not there is a target panel.
C8_StderrToLog ==
    (Returned /\ result[1].stderr # <<>>) => Wrote(splitlines(result[1].stderr))

\* List my issues exited 0 with output on stderr, which is in the log.
C8_Witness ==
    /\ Returned
    /\ target = "list"
    /\ result[1].returncode = 0
    /\ result[1].stderr = <<"boom">>
    /\ HasLine(log, <<"boom">>)

\* C9: a run that exits with a code other than 0 writes the line
\* "Command '<argv joined by spaces>' exited with code <code>" to the log;
\* with a target panel show_error is called exactly once, with that
\* message, and with no target panel it is not called.
C9_FailureReported ==
    (Returned /\ result[1].returncode # 0) =>
        LET line == <<"Command '">> \o join(cmd) \o <<"' exited with code ">>
                        \o <<CodeStr(result[1].returncode)>>
        IN  /\ Wrote(<<line>>)
            /\ IF target # "none"
               THEN PanelCalls("show_error")
                        = << [sink |-> target, op |-> "show_error", text |-> line] >>
               ELSE PanelCalls("show_error") = <<>>

\* View issue exited 1 and the detail panel shows the error.
C9_Witness ==
    /\ Returned
    /\ action = "view_issue"
    /\ result[1].returncode = 1
    /\ Len(PanelCalls("show_error")) = 1
    /\ HasLine(log, <<"Command '", "jira", " ", "issue", " ", "view", " ",
                      "ABC-1", " ", "--plain", "' exited with code ", "1">>)

\* C10: a missing binary or an exit code other than 0 never leaves an
\* action or the probe: once the run has raised or returned the handler is
\* back in the idle state, and the app is ended by the quit action alone.
C10_FailuresHandled ==
    /\ pc \in {"start", "idle", "prompt", "push_screen", "exec", "communicate",
               "quit"}
    /\ (raised # "none" \/ result # <<>>) => pc = "idle"
    /\ pc = "quit" => action = "quit"

\* Transition failed on a missing binary and the app is idle again.
C10_Witness == Missing /\ action = "transition_issue"

\* The action echoed these commands to the log ("$ ..." lines).
CommandEchoes ==
    SelectSeq(LogWrites, LAMBDA c : c.text # <<>> /\ c.text[1] = "$")

ConfirmationLogged ==
    \E i \in 1..Len(LogWrites) :
        /\ LogWrites[i].text # <<>>
        /\ LogWrites[i].text[1] \in {"Comment added to ", "Transitioned "}

NoIssuesShown ==
    \E i \in 1..Len(calls) :
        /\ calls[i].op = "show_message"
        /\ calls[i].text = NoIssues

\* What C11 says of the runner's callers: a confirmation is logged and "No
\* issues" is shown only by a run that exited 0, and an action runs one
\* command at most.
PostSuccessOnlyOnSuccess ==
    /\ ConfirmationLogged => (Returned /\ result[1].returncode = 0)
    /\ NoIssuesShown => (Returned /\ result[1].returncode = 0)
    /\ Len(CommandEchoes) <= 1
    /\ (Returned /\ result[1].returncode # 0) =>
          /\ ~ConfirmationLogged
          /\ ~NoIssuesShown
          /\ Len(CommandEchoes) = 1

C12_MyIssuesFinalContent ==
    (Returned /\ action = "my_issues" /\ result[1].returncode = 0) =>
        /\ listPanel = IF result[1].stdout # <<>>
                       THEN splitlines(result[1].stdout)
                       ELSE <<NoIssues>>
        /\ listPanel # <<LoadingIssues>>

\* List my issues exited 0 with blank output and the panel says so.
C12_Witness ==
    /\ Returned
    /\ action = "my_issues"
    /\ result[1].returncode = 0
    /\ result[1].stdout = <<>>
    /\ listPanel = <<NoIssues>>

AllSpace(t) == \A i \in 1..Len(t) : IsSpace(t[i])

NonSpaceAt(t) == { i \in 1..Len(t) : ~IsSpace(t[i]) }

Trimmed(t) ==
    LET first == CHOOSE i \in NonSpaceAt(t) : \A j \in NonSpaceAt(t) : i <= j
        last == CHOOSE i \in NonSpaceAt(t) : \A j \in NonSpaceAt(t) : j <= i
    IN  [ k \in 1..(last - first + 1) |-> t[first + k - 1] ]

\* C14: a dismissed prompt has resolved to no value if it was cancelled or
\* its text is empty or all whitespace, and to the trimmed text otherwise;
\* the Submit button and submit-on-enter give the same value for the text
\* in the input, and for all-whitespace text the value of a cancel.
C14_PromptValue ==
    /\ submit_value(input_value) = submit_enter_value(input_value)
    /\ AllSpace(input_value) => submit_value(input_value) = cancel_value
    /\ pc = "dismissed" =>
          answers[Len(answers)] =
              IF gesture = "_cancel" \/ AllSpace(input_value)
              THEN <<>>
              ELSE <<Trimmed(input_value)>>

\* Enter was pressed on " a " and the prompt resolved to "a".
C14_Witness ==
    /\ pc = "dismissed"
    /\ gesture = "_submit_enter"
    /\ input_value = <<" ", "a", " ">>
    /\ answers = << << <<"a">> >> >>

ProbeInProgress == action \in ProbeActions /\ pc \in {"exec", "communicate"}

\* C15: from the moment a probe is about to launch its subprocess until
\* the subprocess has ended the status is "checking", so the status of an
\* earlier outcome is not visible while the subprocess is in flight, and
\* the status of an outcome is only ever set over "checking".
C15_CheckingBeforeOutcome ==
    /\ [](ProbeInProgress => status = CheckingStatus)
    /\ []((inflight > 0 /\ action \in ProbeActions) => status = CheckingStatus)
    /\ [][(status' # status /\ status' # CheckingStatus)
            => status = CheckingStatus]_vars

\* A refresh after a successful probe: its subprocess is in flight and the
\* status reads "checking".
C15_Witness ==
    /\ action = "refresh"
    /\ pc = "communicate"
    /\ inflight = 1
    /\ configured
    /\ status = CheckingStatus

Busy == pc \in {"start", "prompt", "push_screen", "exec", "communicate"}

\* C16: when every launched subprocess terminates and every opened prompt
\* is resolved, an action that has been dispatched and not yet returned
\* eventually returns to the idle state; while its subprocess runs the
\* handler stays in the await of communicate.
C16_ActionsReturn ==
    /\ Busy ~> (pc = "idle")
    /\ [](inflight > 0 => pc = "communicate")

\* A comment has gone through both prompts and its subprocess, and the
\* app is idle again.
C16_Witness ==
    /\ Returned
    /\ action = "comment_issue"
    /\ Len(answers) = 2
    /\ inflight = 0

\* The dispatch table: the command vector of each action, the prompted
\* values k (the first) and v (the second) in their places.
TableVector(act, k, v) ==
    CASE act \in ProbeActions ->
            << <<"jira">>, <<"me">> >>
      [] act = "search" ->
            << <<"jira">>, <<"issue">>, <<"list">>, <<"--jql">>, k, <<"--plain">> >>
      [] act = "my_issues" ->
            << <<"jira">>, <<"issue">>, <<"list">>, <<"--assignee">>, <<"me">>,
               <<"--order-by">>, <<"updated">>, <<"--reverse">>, <<"--plain">> >>
      [] act = "view_issue" ->
            << <<"jira">>, <<"issue">>, <<"view">>, k, <<"--plain">> >>
      [] act = "comment_issue" ->
            << <<"jira">>, <<"issue">>, <<"comment">>, <<"add">>, k,
               <<"--comment">>, v >>
      [] act = "transition_issue" ->
            << <<"jira">>, <<"issue">>, <<"transition">>, k, <<"--state">>, v >>

Answer(i) == IF Len(answers) >= i /\ answers[i] # <<>> THEN answers[i][1] ELSE <<>>

\* The last n tokens of text t.
LastTokens(t, n) == SubSeq(t, Len(t) - n + 1, Len(t))

\* C17: the command vector an action hands to the runner is the vector of
\* the dispatch table for that action, with "jira" first and only first
\* and the prompted values in their places; the command the
\* JiraCommandScreen is given is jira init for configure and jira issue
\* create for create issue, and their probe is jira me.
C17_CommandVectors ==
    /\ cmd # <<>> =>
          /\ cmd = TableVector(action, Answer(1), Answer(2))
          /\ cmd[1] = <<"jira">>
          /\ \A i \in 2..Len(cmd) : cmd[i] # <<"jira">>
          /\ \A i \in 1..Len(answers) : answers[i] # <<>> /\ answers[i][1] # <<>>
    /\ (HasScreen("JiraCommandScreen") /\ pc # "push_screen") => terminal # <<>>
    /\ (action = "init" /\ terminal # <<>>) =>
          LastTokens(terminal, 5) = <<"$", " ", "jira", " ", "init">>
    /\ (action = "create_issue" /\ terminal # <<>>) =>
          LastTokens(terminal, 7) = <<"$", " ", "jira", " ", "issue", " ", "create">>

\* Transition of ABC-1 to In Progress has launched its command.
C17_Witness ==
    /\ pc = "communicate"
    /\ cmd = << <<"jira">>, <<"issue">>, <<"transition">>, <<"ABC-1">>,
                <<"--state">>, <<"In", " ", "Progress">> >>

LoadingIssue(key) == <<"Loading issue ">> \o key \o <<"...">>

\* C18: once view issue has completed for a key, on any outcome of its
\* subprocess, the detail panel no longer shows the "Loading issue <key>"
\* message.
C18_LoadingReplaced ==
    (action = "view_issue" /\ pc = "idle" /\ (Returned \/ Missing)) =>
        detailPanel # <<LoadingIssue(Answer(1))>>

\* How many times the action wrote this line to the log.
TimesWritten(line) == Len(SelectSeq(LogWrites, LAMBDA c : c.text = line))

Diagnostics ==
    SelectSeq(LogWrites, LAMBDA c : c.text # <<>> /\ c.text[1] = "Unable")

LinesOf(text) == { splitlines(text)[i] : i \in 1..Len(splitlines(text)) }

\* C19: when a probe has completed, each line of the stdout of a successful
\* probe and each line of the stderr of a failed probe has been written to
\* the log once, and a missing binary has been reported by one line.
C19_ProbeOutputLoggedOnce ==
    (action \in ProbeActions /\ pc = "idle") =>
        /\ (Returned /\ result[1].returncode = 0) =>
              \A line \in LinesOf(result[1].stdout) : TimesWritten(line) = 1
        /\ (Returned /\ result[1].returncode # 0) =>
              \A line \in LinesOf(result[1].stderr) : TimesWritten(line) = 1
        /\ Missing => Len(Diagnostics) = 1

\* C20, as claimed: in every state configured is true only if the status
\* is the authenticated status.
C20_FlagMatchesStatus == configured => status = AuthenticatedStatus

\* C20, amended: configured is true only under the authenticated status
\* or the checking status of a later probe; the status is "checking" only
\* before the first probe has ended and while a probe is in progress; and
\* under any other status the flag is true exactly when the status is the
\* authenticated one.
C20_FlagMatchesSettledStatus ==
    /\ configured => status \in {AuthenticatedStatus, CheckingStatus}
    /\ status = CheckingStatus => (pc = "start" \/ ProbeInProgress)
    /\ status # CheckingStatus => (configured <=> status = AuthenticatedStatus)

\* A refresh is in flight after a successful probe: the flag is still true
\* and the status reads "checking".
C20_Witness ==
    /\ configured
    /\ status = CheckingStatus
    /\ action = "refresh"
    /\ inflight = 1

\* The calls the action made on this panel, in order.
CallsOn(panel) == SelectSeq(calls, LAMBDA c : c.sink = panel)

\* The message of the failure of the command of this action, as one line.
ExitedWithCode ==
    <<"Command '">> \o join(cmd) \o <<"' exited with code ">>
        \o <<CodeStr(result[1].returncode)>>

FailedWithOutput ==
    /\ Returned
    /\ target # "none"
    /\ result[1].returncode # 0
    /\ result[1].stdout # <<>>

\* C21: when a run with a target panel has exited non-zero with a
\* non-empty stdout, the panel was given display_output(stdout) and after
\* it show_error(failure message), each once; the panel ends up showing
\* the one line "Error: Command '...' exited with code <code>", no line of
\* the stdout is on it, and the run wrote no line of the stdout to the log:
\* it wrote the command, the stderr and the failure message.
C21_ErrorReplacesOutput ==
    FailedWithOutput =>
        /\ \E i, j \in 1..Len(CallsOn(target)) :
              /\ i < j
              /\ CallsOn(target)[i].op = "display_output"
              /\ CallsOn(target)[i].text = result[1].stdout
              /\ CallsOn(target)[j].op = "show_error"
              /\ CallsOn(target)[j].text = ExitedWithCode
              /\ \A k \in 1..Len(CallsOn(target)) :
                    /\ CallsOn(target)[k].op = "display_output" => k = i
                    /\ CallsOn(target)[k].op = "show_error" => k = j
                    /\ k > j => CallsOn(target)[k].op = "show_message"
        /\ PanelOf(target) = << <<"Error: ">> \o ExitedWithCode >>
        /\ \A line \in LinesOf(result[1].stdout) :
              /\ \A n \in 1..Len(PanelOf(target)) : PanelOf(target)[n] # line
              /\ TimesWritten(line) = 0
        /\ [ n \in 1..Len(LogWrites) |-> LogWrites[n].text ] =
              << <<"$", " ">> \o join(cmd) >>
                  \o splitlines(result[1].stderr) \o <<ExitedWithCode>>

\* View issue exited 2 after printing two lines, and the detail panel
\* shows the error.
C21_Witness ==
    /\ FailedWithOutput
    /\ action = "view_issue"
    /\ result[1].returncode = 2
    /\ result[1].stdout = <<"ISSUE-1", "\n", "ISSUE-2">>
    /\ detailPanel = << <<"Error: ", "Command '">> \o join(cmd)
                           \o <<"' exited with code ", "2">> >>

=============================================================================
